---------------------------- MODULE Spec2Model ----------------------------
(***************************************************************************)
(* A model of the PyArchInit installer plugin: the installation locator    *)
(* (PyArchInitInstaller.get_existing_pyarchinit_info), the archive fetcher *)
(* (download_branch), the install workflow (install_plugin and its         *)
(* download-completion handler on_download_complete), and the part of the  *)
(* presentation layer that starts installs (run, InstallerDialog's         *)
(* on_install_clicked and on_finished).                                    *)
(*                                                                         *)
(* Strings the code inspects character by character (folder names, the     *)
(* declared plugin name) are sequences of one-character strings, so that   *)
(* lower(), startswith() and the substring test are computed, not assumed. *)
(***************************************************************************)
EXTENDS Integers, Sequences, FiniteSets, TLC

(***************************************************************************)
(* Bounds of the model.                                                    *)
(***************************************************************************)
\* number of install_plugin invocations that can be under way at once, from
\* the call to the return of the download-completion handler
MaxPending == 2
\* number of entries the plugins directory holds where the locator is studied
MaxFolders == 2
\* number of dialogs there are at once
MaxDialogs == 2

(***************************************************************************)
(* Strings.                                                                *)
(***************************************************************************)
UpperCase == <<"A", "B", "C", "D", "E", "F", "G", "H", "I", "J", "K", "L", "M",
               "N", "O", "P", "Q", "R", "S", "T", "U", "V", "W", "X", "Y", "Z">>

LowerCase == <<"a", "b", "c", "d", "e", "f", "g", "h", "i", "j", "k", "l", "m",
               "n", "o", "p", "q", "r", "s", "t", "u", "v", "w", "x", "y", "z">>

\* the lower-case letter of each upper-case letter
to_lower == [c \in {UpperCase[k] : k \in 1..Len(UpperCase)} |->
                LowerCase[CHOOSE k \in 1..Len(UpperCase) : UpperCase[k] = c]]

\* str.lower() on one character
lower_char(c) == IF c \in DOMAIN to_lower THEN to_lower[c] ELSE c

\* str.lower()
lower(s) == [k \in 1..Len(s) |-> lower_char(s[k])]

\* str.startswith(prefix)
startswith(s, prefix) ==
    /\ Len(prefix) <= Len(s)
    /\ SubSeq(s, 1, Len(prefix)) = prefix

\* the Python test  sub in s  on strings
contains(s, sub) ==
    \E k \in 0..(Len(s) - Len(sub)) : SubSeq(s, k + 1, k + Len(sub)) = sub

s_pyarchinit == <<"p", "y", "a", "r", "c", "h", "i", "n", "i", "t">>
s_installer  == <<"i", "n", "s", "t", "a", "l", "l", "e", "r">>
s_master     == <<"m", "a", "s", "t", "e", "r">>
s_main       == <<"m", "a", "i", "n">>
s_dev        == <<"d", "e", "v">>
s_old        == <<"o", "l", "d">>
s_qt6        == <<"f", "e", "a", "t", "u", "r", "e", "-", "q", "t", "6", "-",
                  "m", "i", "g", "r", "a", "t", "i", "o", "n">>
s_PyArchInit == <<"P", "y", "A", "r", "c", "h", "I", "n", "i", "t">>
s_Installer  == <<"I", "n", "s", "t", "a", "l", "l", "e", "r">>

(***************************************************************************)
(* Folder names.                                                           *)
(***************************************************************************)
\* the fixed target name: os.path.join(plugins_path, 'pyarchinit')
target_name == s_pyarchinit

n_master == s_pyarchinit \o <<"-">> \o s_master
n_main   == s_pyarchinit \o <<"-">> \o s_main
n_qt6    == s_pyarchinit \o <<"-">> \o s_qt6
n_dev    == s_pyarchinit \o <<"-">> \o s_dev

\* the installer's own folder names
exclude_folders ==
    << s_pyarchinit \o <<"_">> \o s_installer,
       s_pyarchinit \o <<"-">> \o s_installer >>

\* the built-in candidate names, in list order
builtin_names == << target_name, n_master, n_main, n_qt6, n_dev >>

\* folders met only by the prefix scan, one of them in mixed case
n_Old == s_PyArchInit \o <<"-">> \o s_old
n_bak == s_pyarchinit \o <<".", "b", "a", "k">>
\* the installer's folder as a case-preserving file system may show it
n_Installer == s_PyArchInit \o <<"_">> \o s_Installer
\* some other plugin
n_other == <<"q", "g", "i", "s", "2", "w", "e", "b">>

(***************************************************************************)
(* The plugins directory.  Each name maps to what the file system holds    *)
(* there: nothing, a regular file, a dangling symbolic link, or a folder   *)
(* with its metadata.txt and its tree of files.  A tree is the set of the  *)
(* origins of its files, so that a merge of two trees is visible.          *)
(***************************************************************************)
None == "None"
Unknown == "Unknown"

\* metadata.txt as configparser sees it: absent, unreadable (read() or get()
\* raises), or parsed into an optional name and an optional version of the
\* [general] section
no_metadata == [file |-> "none", has_name |-> FALSE, name |-> <<>>,
                has_version |-> FALSE, version |-> None]

bad_metadata == [file |-> "bad", has_name |-> FALSE, name |-> <<>>,
                 has_version |-> FALSE, version |-> None]

metadata(has_name, name, has_version, version) ==
    [file |-> "ok", has_name |-> has_name, name |-> name,
     has_version |-> has_version, version |-> version]

absent   == [kind |-> "absent", meta |-> no_metadata, tree |-> {}]
a_file   == [kind |-> "file", meta |-> no_metadata, tree |-> {}]
a_link   == [kind |-> "link", meta |-> no_metadata, tree |-> {}]
folder(meta, tree) == [kind |-> "dir", meta |-> meta, tree |-> tree]

\* the names the modelled plugins directory can hold
FsNames == { target_name, n_master, n_Old, n_bak, exclude_folders[1],
             exclude_folders[2], n_Installer, n_other }

\* the names it can hold where the install workflow is studied; the installer
\* plugin lives in the plugins directory it installs into
InstallNames == { target_name, n_master, n_Old, n_Installer }

no_entries == [n \in InstallNames |-> absent]

entry(fs, name) == IF name \in DOMAIN fs.entries THEN fs.entries[name] ELSE absent

\* os.path.exists follows symbolic links: a dangling link does not exist
path_exists(fs, name) == fs.exists /\ entry(fs, name).kind \in {"dir", "file"}

\* os.path.isdir
path_isdir(fs, name) == fs.exists /\ entry(fs, name).kind = "dir"

\* os.path.lexists: something occupies the name
path_occupied(fs, name) == fs.exists /\ entry(fs, name).kind # "absent"

\* the names os.listdir(plugins_path) returns, as a set
listed(fs) == {n \in DOMAIN fs.entries : fs.entries[n].kind # "absent"}

\* os.listdir returns the names in an arbitrary order
RECURSIVE orderings(_)
orderings(S) ==
    IF S = {} THEN {<<>>}
    ELSE UNION {{<<n>> \o rest : rest \in orderings(S \ {n})} : n \in S}

in_list(x, seq) == \E k \in 1..Len(seq) : seq[k] = x

(***************************************************************************)
(* Installation Locator: get_existing_pyarchinit_info.                     *)
(***************************************************************************)
plugins_path == "plugins"

join(dir, name) == [parent |-> dir, name |-> name]

None_path == [parent |-> None, name |-> <<None>>]

None_name == <<None>>

no_match == [exists |-> FALSE, path |-> None_path, version |-> None,
             folder_name |-> None_name]

\* the comparison against exclude_folders done without lower()
is_excluded_case_sensitive(name) == in_list(name, exclude_folders)

\* [x.lower() for x in exclude_folders]
exclude_folders_lower == [k \in 1..Len(exclude_folders) |-> lower(exclude_folders[k])]

\* name.lower() in [x.lower() for x in exclude_folders]
is_excluded(name) == in_list(lower(name), exclude_folders_lower)

\* the loop over os.listdir(plugins_path) that extends possible_names
RECURSIVE prefix_scan(_, _, _)
prefix_scan(fs, listing, names) ==
    IF listing = <<>> THEN names
    ELSE LET item == Head(listing)
             more == IF is_excluded(item) THEN names
                     ELSE IF /\ path_isdir(fs, item)
                             /\ startswith(lower(item), s_pyarchinit)
                             /\ ~in_list(item, names)
                          THEN Append(names, item)
                          ELSE names
         IN  prefix_scan(fs, Tail(listing), more)

possible_names(fs, listing) ==
    IF fs.exists THEN prefix_scan(fs, listing, builtin_names) ELSE builtin_names

\* the declared name taken as it is written
plugin_name_as_written(meta) == IF meta.has_name THEN meta.name ELSE <<>>

\* config.get('general', 'name', fallback='').lower()
plugin_name(meta) == lower(IF meta.has_name THEN meta.name ELSE <<>>)

\* a locator that never reads the version key
version_unread(meta) == Unknown

\* config.get('general', 'version', fallback='Unknown')
declared_version(meta) == IF meta.has_version THEN meta.version ELSE Unknown

\* a match whose path was never filled in
found_without_path(name, version) ==
    [exists |-> TRUE, path |-> None_path, version |-> version,
     folder_name |-> name]

found(name, version) ==
    [exists |-> TRUE, path |-> join(plugins_path, name), version |-> version,
     folder_name |-> name]

\* a loop body that gives up a candidate whose metadata.txt cannot be parsed
inspect_fail_closed(fs, name) ==
    LET meta == entry(fs, name).meta
    IN  IF meta.file = "none" THEN found(name, Unknown)
        ELSE IF meta.file = "bad" THEN no_match
        ELSE IF contains(plugin_name(meta), s_installer) THEN no_match
        ELSE found(name, declared_version(meta))

\* the body of the loop over possible_names for one candidate that is a folder
inspect(fs, name) ==
    LET meta == entry(fs, name).meta
    IN  IF meta.file = "none" THEN found(name, Unknown)
        ELSE IF meta.file = "bad" THEN found(name, Unknown)
        ELSE IF contains(plugin_name(meta), s_installer) THEN no_match
        ELSE found(name, declared_version(meta))

RECURSIVE first_match(_, _)
first_match(fs, names) ==
    IF names = <<>> THEN no_match
    ELSE LET name == Head(names)
         IN  IF is_excluded(name) THEN first_match(fs, Tail(names))
             ELSE IF path_exists(fs, name) /\ path_isdir(fs, name)
                  THEN LET result == inspect(fs, name)
                       IN  IF result.exists THEN result
                           ELSE first_match(fs, Tail(names))
                  ELSE first_match(fs, Tail(names))

get_existing_pyarchinit_info(fs, listing) ==
    first_match(fs, possible_names(fs, listing))

\* the records a call can return, one for each order os.listdir can list the
\* plugins directory in
located(fs) == {get_existing_pyarchinit_info(fs, listing) : listing \in orderings(listed(fs))}

(***************************************************************************)
(* Archives and replies.                                                   *)
(***************************************************************************)
\* what a downloaded body is to zipfile: not a zip file at all, or a zip whose
\* members extract to the top-level entries  top  (in the order os.listdir
\* lists them); root tells whether a member such as './' creates the
\* extraction directory itself
not_a_zip == [zip |-> FALSE, root |-> FALSE, top |-> <<>>]

zip_of(root, top) == [zip |-> TRUE, root |-> root, top |-> top]

new_metadata(version) == metadata(TRUE, s_PyArchInit, TRUE, version)

tree_A == folder(new_metadata("2.2"), {"A"})
tree_B == folder(new_metadata("3.0"), {"B"})

\* the bodies the hosting service answers with
Bodies ==
    { not_a_zip,
      zip_of(FALSE, <<>>),
      zip_of(TRUE, <<>>),
      zip_of(FALSE, <<tree_A>>),
      zip_of(FALSE, <<tree_B, tree_A>>),
      zip_of(FALSE, <<a_file, tree_A>>) }

\* a QNetworkReply: body is what its buffer holds once it has finished, cut
\* tells that readAll() took the first part of the body while it was in flight
no_reply == [state |-> "none", error |-> FALSE, cut |-> FALSE, body |-> not_a_zip]

\* a handler that never looks at reply.error()
error_unchecked(reply) == FALSE

\* reply.error() != QNetworkReply.NoError
has_error(reply) == reply.state = "finished" /\ reply.error

\* what reply.readAll() hands over: the whole body only from a finished reply
\* nothing has been read from before; a part of a zip file is no zip file
read_all(reply) == IF reply.state = "finished" THEN reply.body ELSE not_a_zip

(***************************************************************************)
(* The installer instance and its install_plugin invocations.  An          *)
(* invocation lives in a slot from its call to the return of its handler;  *)
(* what it leaves in the slot stays readable until the event loop          *)
(* dispatches the next event, and the slot then serves a later call.       *)
(***************************************************************************)
Slots == 1..MaxPending

MASTER_BRANCH == s_master
DEV_BRANCH == <<"f", "e", "a", "t", "u", "r", "e", "/", "q", "t", "6", "-",
                "m", "i", "g", "r", "a", "t", "i", "o", "n">>

\* the branch selectors the presentation layer passes.  The selector chooses
\* the URL of the archive and the wording of two messages and nothing else,
\* and the service answers a request with any of the bodies below whatever
\* the branch: the specifications drive install_plugin with 'master'.
Branches == { s_master, s_dev }

VARIABLES
    plugins,        \* the plugins directory
    temp,           \* per invocation: the temporary directory it made
    replies,        \* per invocation: the reply of the request it issued
    current_reply,  \* self.current_reply: the slot whose reply it is, 0 for None
    pc,             \* per invocation: where it stands
    frame,          \* per invocation: the locals of install_plugin and its handler
    progress,       \* per invocation: the progress_callback calls, in order
    finished,       \* per invocation: the finished_callback calls, in order
    escaped,        \* per invocation: an exception left the handler
    last_run,       \* the last run whose finished_callback(True, ...) call is over
    status,         \* what run() handed to update_current_status
    dialogs         \* the dialogs run() has made, in order; the last is self.dialog

vars == << plugins, temp, replies, current_reply, pc, frame, progress,
           finished, escaped, last_run, status, dialogs >>

no_temp == [dir |-> FALSE, zip |-> FALSE, extract_dir |-> FALSE, listing |-> <<>>]

no_plugins == [exists |-> FALSE, entries |-> no_entries]

no_frame == [branch |-> <<>>, actual_branch |-> <<>>, reply |-> 0,
             data |-> not_a_zip, extracted_folders |-> <<>>,
             source_folder |-> absent, existing |-> no_match,
             new_info |-> no_match, start |-> no_plugins]

no_run == [data |-> not_a_zip, target |-> absent]

message(text, arg) == [text |-> text, arg |-> arg]

outcome(success, text, detail) == [success |-> success, text |-> text, detail |-> detail]

\* no handler is between its first and its last statement: the handlers run
\* on the one thread of the event loop, each to its end
loop_idle == \A i \in Slots : pc[i] \in {"idle", "downloading", "done"}

(***************************************************************************)
(* Initial states: the plugins directory before the first install.         *)
(***************************************************************************)
old_metadata == metadata(TRUE, s_PyArchInit, TRUE, "2.1")

\* a metadata.txt whose declared name is the installer's
installer_metadata ==
    metadata(TRUE, s_PyArchInit \o <<" ">> \o s_Installer, TRUE, "1.0")

installed == folder(old_metadata, {"old"})

TargetOptions == { absent, installed, folder(installer_metadata, {"old"}), a_file, a_link }
MasterOptions == { absent, installed }
OldOptions == { absent, installed }

\* the installer's own folder is there, with a metadata.txt that looks like the
\* target plugin's
InstallLayouts ==
    { [n \in InstallNames |->
          IF n = target_name THEN t
          ELSE IF n = n_master THEN m
          ELSE IF n = n_Old THEN o
          ELSE installed] :
        t \in TargetOptions, m \in MasterOptions, o \in OldOptions }

Init ==
    /\ plugins \in {[exists |-> TRUE, entries |-> e] : e \in InstallLayouts}
                   \cup {no_plugins}
    /\ temp = [i \in Slots |-> no_temp]
    /\ replies = [i \in Slots |-> no_reply]
    /\ current_reply = 0
    /\ pc = [i \in Slots |-> "idle"]
    /\ frame = [i \in Slots |-> no_frame]
    /\ progress = [i \in Slots |-> <<>>]
    /\ finished = [i \in Slots |-> <<>>]
    /\ escaped = [i \in Slots |-> FALSE]
    /\ last_run = no_run
    /\ status = no_match
    /\ dialogs = <<>>

(***************************************************************************)
(* Archive Fetcher and Install Workflow.                                   *)
(***************************************************************************)
\* a workflow that reports no progress
say_nothing(i, text, arg) == UNCHANGED progress

say(i, text, arg) == progress' = [progress EXCEPT ![i] = Append(@, message(text, arg))]

finished_callback(i, success, text, detail) ==
    finished' = [finished EXCEPT ![i] = Append(@, outcome(success, text, detail))]

goto(i, label) == pc' = [pc EXCEPT ![i] = label]

\* an except clause that lets the exception go on to the caller
reraise_exception(i, reason) ==
    /\ escaped' = [escaped EXCEPT ![i] = TRUE]
    /\ goto(i, "done")
    /\ UNCHANGED finished

\* except Exception as e: finished_callback(False, f"Installation error: {str(e)}")
handle_exception(i, reason) ==
    /\ finished_callback(i, FALSE, "Installation error", reason)
    /\ goto(i, "done")
    /\ UNCHANGED escaped

\* the slots as the next event finds them: what the returned handlers left
\* (their locals, their callbacks' records, the temporary directories nothing
\* refers to any more) is out of the program's reach
returned == {j \in Slots : pc[j] = "done"}

live(f, blank) == [j \in Slots |-> IF j \in returned THEN blank ELSE f[j]]

\* self.current_reply keeps the reply of the latest request readable
live_replies ==
    [j \in Slots |-> IF j \in returned /\ j # current_reply THEN no_reply ELSE replies[j]]

\* self.current_reply = self.network_manager.get(request): nothing refers to
\* the reply it held before, whose contents can no longer be read
superseded(rs, i) ==
    [j \in Slots |->
        IF j = i THEN [no_reply EXCEPT !.state = "inflight"]
        ELSE IF rs[j].state = "inflight" THEN [no_reply EXCEPT !.state = "inflight"]
        ELSE no_reply]

\* install_plugin up to and including its call of download_branch
install_plugin(branch) ==
    /\ loop_idle
    /\ \E free \in Slots : pc[free] \in {"idle", "done"}
    /\ LET i == CHOOSE free \in Slots :
                  /\ pc[free] \in {"idle", "done"}
                  /\ \A j \in Slots : pc[j] \in {"idle", "done"} => free <= j
           actual_branch == IF branch = s_master THEN MASTER_BRANCH ELSE DEV_BRANCH
       IN  /\ progress' = [live(progress, <<>>) EXCEPT
                             ![i] = <<message("Downloading branch...", branch)>>]
           /\ frame' = [live(frame, no_frame) EXCEPT
                          ![i] = [no_frame EXCEPT !.branch = branch,
                                                  !.actual_branch = actual_branch]]
           /\ replies' = superseded(live_replies, i)
           /\ current_reply' = i
           /\ pc' = [live(pc, "idle") EXCEPT ![i] = "downloading"]
           /\ temp' = [live(temp, no_temp) EXCEPT ![i] = no_temp]
           /\ finished' = [live(finished, <<>>) EXCEPT ![i] = <<>>]
           /\ escaped' = [live(escaped, FALSE) EXCEPT ![i] = FALSE]
    /\ UNCHANGED << plugins, status >>

\* what the hosting service and the network answer a request with
Responses ==
    {[error |-> TRUE, body |-> not_a_zip]}
        \cup {[error |-> FALSE, body |-> b] : b \in Bodies}

\* the reply of invocation i finishes and its finished signal runs
\* lambda: callback(self.current_reply), which enters on_download_complete
on_download_complete(i) ==
    /\ loop_idle
    /\ pc[i] = "downloading"
    /\ replies[i].state = "inflight"
    /\ \E response \in Responses :
         LET arrived == [live_replies EXCEPT
                            ![i].state = "finished",
                            ![i].error = response.error,
                            ![i].body = IF replies[i].cut THEN not_a_zip
                                        ELSE response.body]
             reply == arrived[current_reply]
         IN  \* the answer to a superseded request is never looked at
             /\ i # current_reply => response = [error |-> FALSE, body |-> not_a_zip]
             /\ replies' = arrived
             /\ frame' = [live(frame, no_frame) EXCEPT ![i].reply = current_reply,
                                                      ![i].start = plugins]
             /\ IF has_error(reply)
                THEN /\ finished' = [live(finished, <<>>) EXCEPT
                                       ![i] = <<outcome(FALSE, "Download error", "errorString")>>]
                     /\ pc' = [live(pc, "idle") EXCEPT ![i] = "done"]
                     /\ progress' = live(progress, <<>>)
                ELSE /\ progress' = [live(progress, <<>>) EXCEPT
                                       ![i] = Append(@, message("Download complete. Installing...", <<>>))]
                     /\ pc' = [live(pc, "idle") EXCEPT ![i] = "mkdtemp"]
                     /\ finished' = live(finished, <<>>)
    /\ temp' = live(temp, no_temp)
    /\ escaped' = live(escaped, FALSE)
    /\ UNCHANGED << plugins, current_reply, status >>

\* temp_dir = tempfile.mkdtemp()
mkdtemp(i) ==
    /\ pc[i] = "mkdtemp"
    /\ \/ /\ temp' = [temp EXCEPT ![i].dir = TRUE]
          /\ goto(i, "write_zip")
          /\ UNCHANGED << finished, escaped >>
       \/ /\ handle_exception(i, "OSError")
          /\ UNCHANGED temp
    /\ UNCHANGED << plugins, replies, current_reply, frame, progress, status >>

\* with open(zip_path, 'wb') as f: f.write(reply.readAll().data())
write_zip(i) ==
    /\ pc[i] = "write_zip"
    /\ LET r == frame[i].reply
           reply == replies[r]
       IN  \E how \in {"ok", "open raises", "write raises"}, cut \in BOOLEAN :
             \* readAll() empties the buffer of a finished reply; of a reply
             \* still in flight it takes what has arrived, possibly nothing
             /\ IF how = "open raises" \/ reply.state = "finished"
                THEN cut = reply.cut
                ELSE reply.cut => cut
             /\ replies' = [replies EXCEPT
                               ![r].cut = cut,
                               ![r].body = IF how = "open raises" THEN @ ELSE not_a_zip]
             /\ IF how = "ok"
                THEN /\ temp' = [temp EXCEPT ![i].zip = TRUE]
                     /\ frame' = [frame EXCEPT ![i].data = read_all(reply)]
                     /\ say(i, "Extracting files...", <<>>)
                     /\ goto(i, "extract")
                     /\ UNCHANGED << finished, escaped >>
                ELSE /\ handle_exception(i, "OSError")
                     /\ temp' = [temp EXCEPT ![i].zip = (how = "write raises")]
                     /\ UNCHANGED << frame, progress >>
    /\ UNCHANGED << plugins, current_reply, status >>

\* with zipfile.ZipFile(zip_path, 'r') as zip_ref: zip_ref.extractall(extract_dir)
extract(i) ==
    /\ pc[i] = "extract"
    /\ LET data == frame[i].data
       IN  IF ~data.zip
           THEN /\ handle_exception(i, "BadZipFile")
                /\ UNCHANGED temp
           ELSE \/ /\ temp' = [temp EXCEPT
                                  ![i].extract_dir = (data.root \/ data.top # <<>>),
                                  ![i].listing = data.top]
                   /\ goto(i, "listdir")
                   /\ UNCHANGED << finished, escaped >>
                \/ /\ handle_exception(i, "OSError")
                   /\ UNCHANGED temp
    /\ UNCHANGED << plugins, replies, current_reply, frame, progress, status >>

\* the listing of the extraction directory without the test for an empty list
list_extracted_unchecked(i) ==
    /\ pc[i] = "listdir"
    /\ IF ~temp[i].extract_dir
       THEN /\ handle_exception(i, "FileNotFoundError")
            /\ UNCHANGED << frame, progress >>
       ELSE /\ frame' = [frame EXCEPT ![i].extracted_folders = temp[i].listing]
            /\ say(i, "Checking existing installation...", <<>>)
            /\ goto(i, "locate")
            /\ UNCHANGED << finished, escaped >>
    /\ UNCHANGED << plugins, temp, replies, current_reply, status >>

\* extracted_folders = os.listdir(extract_dir) and the test for an empty list
list_extracted(i) ==
    /\ pc[i] = "listdir"
    /\ IF ~temp[i].extract_dir
       THEN /\ handle_exception(i, "FileNotFoundError")
            /\ UNCHANGED << frame, progress >>
       ELSE IF temp[i].listing = <<>>
       THEN /\ finished_callback(i, FALSE, "No files found in downloaded archive", "")
            /\ goto(i, "done")
            /\ frame' = [frame EXCEPT ![i].extracted_folders = temp[i].listing]
            /\ UNCHANGED << progress, escaped >>
       ELSE /\ frame' = [frame EXCEPT ![i].extracted_folders = temp[i].listing,
                                      ![i].source_folder = temp[i].listing[1]]
            /\ say(i, "Checking existing installation...", <<>>)
            /\ goto(i, "locate")
            /\ UNCHANGED << finished, escaped >>
    /\ UNCHANGED << plugins, temp, replies, current_reply, status >>

\* a removal that returns without having deleted anything
kept(fs, name) == fs

\* shutil.rmtree(path) that succeeds
removed(fs, name) == [fs EXCEPT !.entries[name] = absent]

\* shutil.rmtree(path) that raises after it has deleted some of the files,
\* metadata.txt among them
partly_removed(fs, name) ==
    [fs EXCEPT !.entries[name] = folder(no_metadata, entry(fs, name).tree)]

\* what a raising shutil.rmtree of a folder can leave behind
after_failed_rmtree(fs, name) ==
    IF entry(fs, name).kind = "dir" THEN {fs, partly_removed(fs, name)} ELSE {fs}

\* existing = self.get_existing_pyarchinit_info() and the test of existing['exists']
locate_existing(i) ==
    /\ pc[i] = "locate"
    /\ \/ /\ plugins.exists
          /\ handle_exception(i, "OSError")
          /\ UNCHANGED << frame, progress >>
       \/ \E existing \in located(plugins) :
                /\ frame' = [frame EXCEPT ![i].existing = existing]
                /\ IF existing.exists
                   THEN /\ say(i, "Removing existing installation: ...", existing.folder_name)
                        /\ goto(i, "rmtree_existing")
                   ELSE /\ goto(i, "check_target")
                        /\ UNCHANGED progress
                /\ UNCHANGED << finished, escaped >>
    /\ UNCHANGED << plugins, temp, replies, current_reply, status >>

\* shutil.rmtree(existing['path']) without a try statement of its own
rmtree_existing_unguarded(i) ==
    /\ pc[i] = "rmtree_existing"
    /\ LET name == frame[i].existing.path.name
       IN  \/ /\ plugins' = removed(plugins, name)
              /\ goto(i, "check_target")
              /\ UNCHANGED << finished, escaped >>
           \/ /\ plugins' \in after_failed_rmtree(plugins, name)
              /\ handle_exception(i, "OSError")
    /\ UNCHANGED << temp, replies, current_reply, frame, progress, status >>

\* try: shutil.rmtree(existing['path']) except Exception as e: ... return
rmtree_existing(i) ==
    /\ pc[i] = "rmtree_existing"
    /\ LET name == frame[i].existing.path.name
       IN  \/ /\ plugins' = removed(plugins, name)
              /\ goto(i, "check_target")
              /\ UNCHANGED << finished, escaped >>
           \/ /\ plugins' \in after_failed_rmtree(plugins, name)
              /\ finished_callback(i, FALSE, "Failed to remove existing installation", "OSError")
              /\ goto(i, "done")
              /\ UNCHANGED escaped
    /\ UNCHANGED << temp, replies, current_reply, frame, progress, status >>

\* if os.path.exists(target_path):
check_target(i) ==
    /\ pc[i] = "check_target"
    /\ IF path_exists(plugins, target_name)
       THEN /\ say(i, "Removing old pyarchinit folder...", <<>>)
            /\ goto(i, "rmtree_target")
       ELSE /\ say(i, "Copying new plugin files...", <<>>)
            /\ goto(i, "copytree")
    /\ UNCHANGED << plugins, temp, replies, current_reply, frame, finished,
                    escaped, status >>

\* shutil.rmtree(target_path)
rmtree_target(i) ==
    /\ pc[i] = "rmtree_target"
    /\ \/ /\ path_isdir(plugins, target_name)
          /\ plugins' = removed(plugins, target_name)
          /\ say(i, "Copying new plugin files...", <<>>)
          /\ goto(i, "copytree")
          /\ UNCHANGED << finished, escaped >>
       \/ /\ path_isdir(plugins, target_name)
          /\ plugins' \in after_failed_rmtree(plugins, target_name)
          /\ handle_exception(i, "OSError")
          /\ UNCHANGED progress
       \/ /\ ~path_isdir(plugins, target_name)
          /\ handle_exception(i, "NotADirectoryError")
          /\ UNCHANGED << plugins, progress >>
    /\ UNCHANGED << temp, replies, current_reply, frame, status >>

\* a copy that leaves a file of the previous installation among the new ones
copied_among_old(fs, source) ==
    [fs EXCEPT !.exists = TRUE,
               !.entries[target_name] = folder(source.meta, source.tree \cup {"old"})]

\* shutil.copytree(source_folder, target_path) that succeeds; os.makedirs
\* makes the plugins directory too when it is missing
copied(fs, source) == [fs EXCEPT !.exists = TRUE, !.entries[target_name] = source]

\* shutil.copytree that raises after it has copied some of the files
partly_copied(fs, source) ==
    [fs EXCEPT !.exists = TRUE,
               !.entries[target_name] = folder(no_metadata, source.tree)]

\* shutil.copytree(source_folder, target_path)
copytree(i) ==
    /\ pc[i] = "copytree"
    /\ LET source == frame[i].source_folder
       IN  IF source.kind # "dir"
           THEN /\ handle_exception(i, "NotADirectoryError")
                /\ UNCHANGED << plugins, progress >>
           ELSE IF path_occupied(plugins, target_name)
           THEN /\ handle_exception(i, "FileExistsError")
                /\ UNCHANGED << plugins, progress >>
           ELSE \/ /\ plugins' = copied(plugins, source)
                   /\ say(i, "Cleaning up...", <<>>)
                   /\ goto(i, "rmtree_temp")
                   /\ UNCHANGED << finished, escaped >>
                \/ /\ plugins' \in {plugins, partly_copied(plugins, source)}
                   /\ handle_exception(i, "OSError")
                   /\ UNCHANGED progress
    /\ UNCHANGED << temp, replies, current_reply, frame, status >>

\* a clean-up that deletes the downloaded zip file only
rmtree_temp_zip_only(i) ==
    /\ pc[i] = "rmtree_temp"
    /\ \/ /\ temp' = [temp EXCEPT ![i].zip = FALSE]
          /\ goto(i, "read_back")
          /\ UNCHANGED << finished, escaped >>
       \/ /\ handle_exception(i, "OSError")
          /\ UNCHANGED temp
    /\ UNCHANGED << plugins, replies, current_reply, frame, progress, status >>

\* shutil.rmtree(temp_dir)
rmtree_temp(i) ==
    /\ pc[i] = "rmtree_temp"
    /\ \/ /\ temp' = [temp EXCEPT ![i] = no_temp]
          /\ goto(i, "read_back")
          /\ UNCHANGED << finished, escaped >>
       \/ /\ handle_exception(i, "OSError")
          /\ UNCHANGED temp
    /\ UNCHANGED << plugins, replies, current_reply, frame, progress, status >>

\* new_info = self.get_existing_pyarchinit_info() and the entry into
\* finished_callback(True, ...), which is InstallerDialog.on_finished
read_back(i) ==
    /\ pc[i] = "read_back"
    /\ \/ /\ handle_exception(i, "OSError")
          /\ UNCHANGED frame
       \/ \E new_info \in located(plugins) :
                /\ frame' = [frame EXCEPT ![i].new_info = new_info]
                /\ finished_callback(i, TRUE, "installed successfully", new_info.version)
                /\ goto(i, "on_finished")
                /\ UNCHANGED escaped
    /\ UNCHANGED << plugins, temp, replies, current_reply, progress, status >>

\* InstallerDialog.update_current_status(info)
update_current_status(info) == status' = info

\* the rest of InstallerDialog.on_finished(True, message), called inside the
\* try block of the handler: it asks the locator what is installed now and
\* shows it; an exception of the locator leaves on_finished and is caught by
\* the handler's except clause, which calls finished_callback once more
on_finished(i) ==
    /\ pc[i] = "on_finished"
    /\ \/ \E existing \in located(plugins) :
                /\ update_current_status(existing)
                /\ goto(i, "done")
                /\ UNCHANGED << finished, escaped >>
       \/ /\ handle_exception(i, "OSError")
          /\ UNCHANGED status
    /\ UNCHANGED << plugins, temp, replies, current_reply, frame, progress >>

\* the archive a successful run installed and what it left at the target path
run_of(i) == [data |-> frame[i].data, target |-> entry(plugins, target_name)]

\* the steps of the handler
step(i) ==
    \/ mkdtemp(i)
    \/ write_zip(i)
    \/ extract(i)
    \/ list_extracted(i)
    \/ locate_existing(i)
    \/ rmtree_existing(i)
    \/ check_target(i)
    \/ rmtree_target(i)
    \/ copytree(i)
    \/ rmtree_temp(i)
    \/ read_back(i)
    \/ on_finished(i)

Next ==
    \/ install_plugin(s_master) /\ UNCHANGED << last_run, dialogs >>
    \/ \E i \in Slots : on_download_complete(i) /\ UNCHANGED << last_run, dialogs >>
    \/ \E i \in Slots : mkdtemp(i) /\ UNCHANGED << last_run, dialogs >>
    \/ \E i \in Slots : write_zip(i) /\ UNCHANGED << last_run, dialogs >>
    \/ \E i \in Slots : extract(i) /\ UNCHANGED << last_run, dialogs >>
    \/ \E i \in Slots : list_extracted(i) /\ UNCHANGED << last_run, dialogs >>
    \/ \E i \in Slots : locate_existing(i) /\ UNCHANGED << last_run, dialogs >>
    \/ \E i \in Slots : rmtree_existing(i) /\ UNCHANGED << last_run, dialogs >>
    \/ \E i \in Slots : check_target(i) /\ UNCHANGED << last_run, dialogs >>
    \/ \E i \in Slots : rmtree_target(i) /\ UNCHANGED << last_run, dialogs >>
    \/ \E i \in Slots : copytree(i) /\ UNCHANGED << last_run, dialogs >>
    \/ \E i \in Slots : rmtree_temp(i) /\ UNCHANGED << last_run, dialogs >>
    \/ \E i \in Slots : read_back(i) /\ UNCHANGED << last_run, dialogs >>
    \/ \E i \in Slots : on_finished(i) /\ UNCHANGED << last_run, dialogs >>

Spec == Init /\ [][Next]_vars

\* install_plugin('master') run again and again, each run started after the
\* handler of the one before it has returned; last_run records a run that
\* called finished_callback(True, ...) once its callback is over
NextRepeat ==
    \/ /\ \A j \in Slots : pc[j] \in {"idle", "done"}
       /\ install_plugin(s_master)
       /\ UNCHANGED << last_run, dialogs >>
    \/ \E i \in Slots : on_download_complete(i) /\ UNCHANGED << last_run, dialogs >>
    \/ \E i \in Slots :
          /\ step(i)
          /\ last_run' = IF pc[i] = "on_finished" THEN run_of(i) ELSE last_run
          /\ UNCHANGED dialogs

SpecRepeat == Init /\ [][NextRepeat]_vars

(***************************************************************************)
(* The locator on its own: run() asks it what is installed and hands the   *)
(* record to the dialog it has just made.  The plugins directory holds at  *)
(* most MaxFolders entries, of any kind and with any metadata.txt.         *)
(***************************************************************************)
\* a metadata.txt with no [general] section: neither key is there
no_section == metadata(FALSE, <<>>, FALSE, None)

LocateMetadata ==
    { no_metadata, bad_metadata, old_metadata, installer_metadata, no_section,
      metadata(FALSE, <<>>, TRUE, "2.1"),
      metadata(TRUE, s_PyArchInit, FALSE, None),
      metadata(TRUE, s_PyArchInit \o <<" ">> \o s_Installer, FALSE, None) }

LocateEntries == {a_file, a_link} \cup {folder(m, {"old"}) : m \in LocateMetadata}

\* the plugins directory with the entries  held  and nothing else
layout(held) ==
    [exists |-> TRUE,
     entries |-> [n \in FsNames |-> IF n \in DOMAIN held THEN held[n] ELSE absent]]

InitLocate ==
    /\ \/ plugins = [exists |-> FALSE, entries |-> [n \in FsNames |-> absent]]
       \/ \E S \in SUBSET FsNames :
             /\ Cardinality(S) <= MaxFolders
             /\ \E held \in [S -> LocateEntries] : plugins = layout(held)
    /\ temp = [i \in Slots |-> no_temp]
    /\ replies = [i \in Slots |-> no_reply]
    /\ current_reply = 0
    /\ pc = [i \in Slots |-> "idle"]
    /\ frame = [i \in Slots |-> no_frame]
    /\ progress = [i \in Slots |-> <<>>]
    /\ finished = [i \in Slots |-> <<>>]
    /\ escaped = [i \in Slots |-> FALSE]
    /\ last_run = no_run
    /\ status = no_match
    /\ dialogs = <<>>

\* InstallerDialog(self): the install controls are enabled; slot is the
\* invocation whose callbacks are this dialog's on_progress and on_finished
\* (0 for none), reply the answer to the confirmation its latest click asked
\* for, held tells that the handler of a request refers to the dialog's
\* on_finished, which keeps the dialog when self.dialog lets go of it
new_dialog == [enabled |-> TRUE, slot |-> 0, reply |-> "none", held |-> FALSE]

\* the dialogs that outlive the assignment to self.dialog: a dialog has no
\* parent, and the one self.dialog referred to goes with its last reference
outliving ==
    IF dialogs # <<>> /\ ~dialogs[Len(dialogs)].held
    THEN SubSeq(dialogs, 1, Len(dialogs) - 1)
    ELSE dialogs

\* self.dialog = InstallerDialog(self)
\* existing = self.get_existing_pyarchinit_info()
\* self.dialog.update_current_status(existing)
\* self.dialog.show()
run ==
    /\ Len(outliving) < MaxDialogs
    /\ dialogs' = Append(outliving, new_dialog)
    /\ \E existing \in located(plugins) : update_current_status(existing)
    /\ UNCHANGED << plugins, temp, replies, current_reply, pc, frame, progress,
                    finished, escaped, last_run >>

NextLocate == run

SpecLocate == InitLocate /\ [][NextLocate]_vars

(***************************************************************************)
(* The presentation layer: the dialogs run() makes and shows, the click on *)
(* a dialog's install button, and the dialog's on_finished as the callback *)
(* of the invocation the click started.                                    *)
(***************************************************************************)
\* the answers QMessageBox.question returns
Answers == { "Yes", "No" }

\* InstallerDialog.on_install_clicked: the signal of a button that is enabled,
\* taken by the event loop between two handlers
on_install_clicked(d) ==
    /\ loop_idle
    /\ dialogs[d].enabled
    /\ \E existing \in located(plugins), answer \in Answers :
          LET reply == IF existing.exists THEN answer ELSE "none"
          IN  /\ ~existing.exists => answer = "Yes"
              /\ IF reply = "No"
                 THEN /\ dialogs' = [dialogs EXCEPT ![d].reply = reply]
                      /\ UNCHANGED << plugins, temp, replies, current_reply, pc,
                                      frame, progress, finished, escaped, status >>
                 ELSE /\ install_plugin(s_master)
                      /\ dialogs' = [dialogs EXCEPT
                                        ![d] = [enabled |-> FALSE,
                                                slot |-> current_reply',
                                                reply |-> reply,
                                                held |-> TRUE]]

\* the first statements of InstallerDialog.on_finished, run by every step of
\* invocation i that calls finished_callback: the install controls of the
\* dialog are enabled again
enable_controls(i) ==
    dialogs' =
        IF finished'[i] # <<>> /\ finished'[i] # finished[i]
        THEN [d \in DOMAIN dialogs |->
                 IF dialogs[d].slot = i
                 THEN [dialogs[d] EXCEPT !.enabled = TRUE, !.slot = 0]
                 ELSE dialogs[d]]
        ELSE dialogs

\* the plugin driven by its user: the toolbar action, the install buttons,
\* and the downloads the clicks start
NextDialog ==
    \/ run
    \/ \E d \in DOMAIN dialogs : on_install_clicked(d) /\ UNCHANGED last_run
    \/ \E i \in Slots :
          on_download_complete(i) /\ enable_controls(i) /\ UNCHANGED last_run
    \/ \E i \in Slots : step(i) /\ enable_controls(i) /\ UNCHANGED last_run

\* the plugins directory the user finds: nothing installed, the plugin
\* installed under the target name or under 'pyarchinit-master', or a folder
\* at the target path that declares the installer's name
DialogLayouts ==
    { e \in InstallLayouts :
        /\ e[n_Old] = absent
        /\ e[target_name] \in {absent, installed, folder(installer_metadata, {"old"})}
        /\ e[n_master] = absent \/ e[target_name] = absent }

InitDialog ==
    /\ Init
    /\ plugins.exists
    /\ plugins.entries \in DialogLayouts

SpecDialog == InitDialog /\ [][NextDialog]_vars

(***************************************************************************)
(* Properties.                                                             *)
(***************************************************************************)
last(seq) == seq[Len(seq)]

succeeded(i) == Len(finished[i]) > 0 /\ finished[i][1].success

\* C1: every install_plugin invocation whose download-completion handler has
\* run to its end has called finished_callback exactly once, whichever path
\* it took.  This is the claim as stated; it does not hold, because
\* finished_callback(True, ...) is called inside the try block and an
\* exception raised in it (on_finished asks the locator again) makes the
\* except clause call finished_callback a second time.
C1_on_done_exactly_once ==
    \A i \in Slots : pc[i] = "done" => Len(finished[i]) = 1

\* the steps the claim C2 lists: creating the temporary directory, writing the
\* zip, extracting, removing the canonical target path, copying, cleaning up,
\* reading back the version
RaisingSteps ==
    {"mkdtemp", "write_zip", "extract", "rmtree_target", "copytree",
     "rmtree_temp", "read_back"}

\* C2: when one of the listed steps after the transport-error check raises,
\* the handler ends there with one more finished_callback call, which is
\* (False, "Installation error: <reason>"), and no exception leaves the
\* handler at any step.
C2_exceptions_reported ==
    [][\A i \in Slots :
          /\ ~escaped'[i]
          /\ (pc[i] \in RaisingSteps /\ pc'[i] = "done") =>
                /\ Len(finished'[i]) = Len(finished[i]) + 1
                /\ ~last(finished'[i]).success
                /\ last(finished'[i]).text = "Installation error"]_vars

\* a copy onto a dangling link at the target path raised and was reported
C2_witness ==
    \E i \in Slots :
        /\ pc[i] = "done"
        /\ ~escaped[i]
        /\ finished[i] = <<outcome(FALSE, "Installation error", "FileExistsError")>>

\* C3: when the reply handed to the handler reports a transport error, the
\* handler calls finished_callback(False, "Download error: <reason>") and
\* returns, having made no temporary directory and changed nothing in the
\* plugins directory; otherwise it goes on to make the temporary directory.
C3_transport_error ==
    [][\A i \in Slots :
          (pc[i] = "downloading" /\ pc'[i] # "downloading") =>
              IF replies'[frame'[i].reply].error
              THEN /\ pc'[i] = "done"
                   /\ finished'[i] = <<outcome(FALSE, "Download error", "errorString")>>
                   /\ temp'[i] = no_temp
                   /\ plugins' = plugins
              ELSE /\ pc'[i] = "mkdtemp"
                   /\ finished'[i] = <<>>]_vars

\* a transport error was reported while an installation was in place
C3_witness ==
    \E i \in Slots :
        /\ pc[i] = "done"
        /\ finished[i] = <<outcome(FALSE, "Download error", "errorString")>>
        /\ entry(plugins, target_name) = installed
        /\ temp[i] = no_temp

\* C4: when the extraction has completed and yielded no top-level entry, the
\* handler reports finished_callback(False, "No files found in downloaded
\* archive") and deletes nothing.  This is the claim as stated; it does not
\* hold for a zip file without members, whose extraction does not create the
\* extraction directory, so that os.listdir raises and the failure is
\* reported as "Installation error: ...".
C4_empty_extraction ==
    [][\A i \in Slots :
          (pc[i] = "listdir" /\ temp[i].listing = <<>> /\ pc'[i] = "done") =>
              /\ finished'[i] = <<outcome(FALSE, "No files found in downloaded archive", "")>>
              /\ plugins' = plugins]_vars

\* the steps that delete a plugin directory
DeletingSteps == {"rmtree_existing", "rmtree_target"}

\* the steps from the copy on
FromCopy == {"copytree", "rmtree_temp", "read_back", "on_finished"}

\* C5: the plugins directory changes only in the two removal steps and the
\* copy step, all of them after the extraction has produced at least one
\* top-level entry; a removal step leaves at the target path what was there,
\* or a part of it, or nothing;
\* from the copy on there is no removal step and the copy deletes no other
\* plugin directory; and when the handler ends at the extraction or at the
\* listing of its result, the plugins directory is what it was when the
\* handler was entered.
C5_deletion_ordering ==
    [][\A i \in Slots :
          /\ (plugins' # plugins /\ pc[i] \notin {"idle", "downloading", "done"}) =>
                /\ pc[i] \in DeletingSteps \cup {"copytree"}
                /\ frame[i].extracted_folders # <<>>
                /\ temp[i].extract_dir
          /\ pc[i] \in DeletingSteps =>
                entry(plugins', target_name) \in
                    { entry(plugins, target_name), absent,
                      folder(no_metadata, entry(plugins, target_name).tree) }
          /\ pc[i] \in FromCopy =>
                /\ pc'[i] \in FromCopy \cup {"done"}
                /\ \A n \in DOMAIN plugins.entries \ {target_name} :
                       entry(plugins', n) = entry(plugins, n)
          /\ (pc[i] \in {"extract", "listdir"} /\ pc'[i] = "done") =>
                plugins' = frame[i].start]_vars

\* both the located installation and the target path have been removed and the
\* copy is about to start
C5_witness ==
    \E i \in Slots :
        /\ pc[i] = "copytree"
        /\ frame[i].existing.exists
        /\ frame[i].existing.folder_name # target_name
        /\ path_isdir(frame[i].start, target_name)
        /\ ~path_occupied(plugins, target_name)
        /\ ~path_occupied(plugins, frame[i].existing.folder_name)

\* C6: a copy that succeeds starts with nothing at the target path and
\* nothing at the path of the located installation, and leaves a directory
\* at the target path, which is there when finished_callback(True, ...) is
\* called; a copy that starts with something at the target path raises, is
\* reported, and leaves what was there as it was.
C6_copy_onto_nothing ==
    [][\A i \in Slots :
          /\ (pc[i] = "copytree" /\ pc'[i] = "rmtree_temp") =>
                /\ ~path_occupied(plugins, target_name)
                /\ frame[i].existing.exists =>
                      ~path_occupied(plugins, frame[i].existing.folder_name)
                /\ path_isdir(plugins', target_name)
          /\ (pc[i] = "copytree" /\ pc'[i] # "copytree"
                /\ path_occupied(plugins, target_name)) =>
                /\ pc'[i] = "done"
                /\ plugins' = plugins
                /\ ~last(finished'[i]).success
                /\ last(finished'[i]).text = "Installation error"
          /\ (pc[i] = "read_back" /\ pc'[i] = "on_finished") =>
                /\ last(finished'[i]).success
                /\ path_isdir(plugins', target_name)]_vars

\* a run that removed a located 'pyarchinit-master' and a directory at the
\* target path has called finished_callback(True, ...)
C6_witness ==
    \E i \in Slots :
        /\ pc[i] = "on_finished"
        /\ succeeded(i)
        /\ frame[i].existing.folder_name = n_master
        /\ path_isdir(frame[i].start, target_name)
        /\ path_isdir(frame[i].start, n_master)
        /\ ~path_occupied(plugins, n_master)

\* C7: when the removal of the located installation raises (the directory is
\* still there after the step), the handler ends with its only
\* finished_callback call, (False, "Failed to remove existing installation:
\* <reason>"), nothing has been copied to the target path, the temporary
\* directory with the zip and the extraction is left behind; and an
\* invocation that has ended takes no further step.
C7_failed_removal ==
    [][\A i \in Slots :
          /\ (pc[i] = "rmtree_existing" /\ pc'[i] # "rmtree_existing") =>
                LET name == frame[i].existing.folder_name
                IN  IF path_occupied(plugins', name)
                    THEN /\ pc'[i] = "done"
                         /\ finished'[i] =
                               <<outcome(FALSE, "Failed to remove existing installation", "OSError")>>
                         /\ plugins' \in after_failed_rmtree(plugins, name)
                         /\ name # target_name =>
                               entry(plugins', target_name) = entry(plugins, target_name)
                         /\ temp'[i] = temp[i]
                         /\ temp[i].dir /\ temp[i].zip /\ temp[i].extract_dir
                    ELSE pc'[i] = "check_target"
          /\ pc[i] = "done" =>
                /\ pc'[i] \in {"done", "idle", "downloading"}
                /\ pc'[i] = "done" => finished'[i] = finished[i] /\ plugins' = plugins]_vars

\* the removal of the located installation raised after it had deleted some
\* of its files
C7_witness ==
    \E i \in Slots :
        /\ pc[i] = "done"
        /\ finished[i] = <<outcome(FALSE, "Failed to remove existing installation", "OSError")>>
        /\ entry(plugins, frame[i].existing.folder_name) = folder(no_metadata, {"old"})
        /\ temp[i].dir /\ temp[i].extract_dir

\* C8: once finished_callback(True, ...) has been called, the target path
\* holds the first top-level entry of the extraction, the whole of it and
\* nothing else: no file of what the target path or the located installation
\* held before.
C8_target_is_extracted_tree ==
    \A i \in Slots :
        (pc[i] \in {"on_finished", "done"} /\ succeeded(i)) =>
            /\ frame[i].data.top # <<>>
            /\ entry(plugins, target_name) = frame[i].data.top[1]
            /\ "old" \notin entry(plugins, target_name).tree

\* an archive with two top-level entries has replaced an installation
C8_witness ==
    \E i \in Slots :
        /\ pc[i] = "done"
        /\ succeeded(i)
        /\ frame[i].data.top = <<tree_B, tree_A>>
        /\ entry(frame[i].start, target_name) = installed
        /\ entry(plugins, target_name) = tree_B

\* C9: when install_plugin('master') has called finished_callback(True, ...),
\* the temporary directory of the run, with the zip and the extraction, is
\* gone, and if the successful run before it was served the same archive,
\* the target path holds what it held after that run.
C9_idempotent ==
    \A i \in Slots :
        pc[i] = "on_finished" =>
            /\ temp[i] = no_temp
            /\ (last_run # no_run /\ last_run.data = frame[i].data) =>
                  entry(plugins, target_name) = last_run.target

\* a second successful run in sequence, served the same archive as the first
C9_witness ==
    \E i \in Slots :
        /\ pc[i] = "on_finished"
        /\ succeeded(i)
        /\ last_run # no_run
        /\ last_run.data = frame[i].data
        /\ entry(frame[i].start, target_name) = last_run.target
        /\ temp[i] = no_temp

\* C10: the record the locator returns never names one of the installer's own
\* folders, whatever the case of the letters of the folder's name.
C10_installer_never_located ==
    \A k \in 1..Len(exclude_folders) :
        lower(status.folder_name) # lower(exclude_folders[k])

\* the locator has returned another folder while the installer's folder, in
\* mixed case and with a metadata.txt that looks like the target plugin's, was
\* in the plugins directory
C10_witness ==
    /\ status.exists
    /\ entry(plugins, n_Installer) = folder(old_metadata, {"old"})

\* the folders the locator looks into: directories whose name begins with
\* 'pyarchinit' in any case and is not one of the installer's
candidates(fs) ==
    {n \in listed(fs) : /\ path_isdir(fs, n)
                        /\ ~is_excluded(n)
                        /\ startswith(lower(n), s_pyarchinit)}

\* a metadata.txt that is there and is malformed: it cannot be parsed, or it
\* lacks the [general] section, the name key or the version key
malformed(meta) ==
    \/ meta.file = "bad"
    \/ meta.file = "ok" /\ (~meta.has_name \/ ~meta.has_version)

\* the declared name of a parsed metadata.txt contains 'installer'
names_installer(meta) ==
    /\ meta.file = "ok"
    /\ meta.has_name
    /\ contains(lower(meta.name), s_installer)

\* C11 as stated: once run() has asked the locator, a candidate folder with a
\* malformed metadata.txt has given a match, and a match for a folder with a
\* malformed metadata.txt has version "Unknown".
C11_malformed_is_unknown ==
    dialogs # <<>> =>
        /\ (\E n \in candidates(plugins) : malformed(entry(plugins, n).meta))
              => status.exists
        /\ status.exists /\ malformed(entry(plugins, status.folder_name).meta)
              => status.version = Unknown

\* C11 (amended): once run() has asked the locator, a candidate folder whose
\* malformed metadata.txt does not declare a name containing 'installer' has
\* given a match, and a match for a folder with a malformed metadata.txt has
\* the version the file declares if it parses and has a version key, and
\* "Unknown" otherwise.
C11_malformed_is_matched ==
    dialogs # <<>> =>
        /\ (\E n \in candidates(plugins) :
                /\ malformed(entry(plugins, n).meta)
                /\ ~names_installer(entry(plugins, n).meta))
              => status.exists
        /\ status.exists /\ malformed(entry(plugins, status.folder_name).meta)
              => LET meta == entry(plugins, status.folder_name).meta
                 IN  status.version = IF meta.file = "ok" /\ meta.has_version
                                      THEN meta.version
                                      ELSE Unknown

\* the locator has returned a folder whose metadata.txt cannot be parsed, with
\* version "Unknown"
C11_witness ==
    /\ dialogs # <<>>
    /\ status.exists
    /\ entry(plugins, status.folder_name).meta = bad_metadata
    /\ status.version = Unknown

\* C12: the record the locator has returned is well formed: a match has a
\* path, a version and a folder name, and its path is the plugins directory
\* joined with the folder name; a record that is no match has none of the
\* three; a missing or empty plugins directory gives a record that is no match.
C12_record_well_formed ==
    dialogs # <<>> =>
        /\ status.exists =>
              /\ status.path # None_path
              /\ status.version # None
              /\ status.folder_name # None_name
              /\ status.path = [parent |-> plugins_path, name |-> status.folder_name]
        /\ ~status.exists =>
              /\ status.path = None_path
              /\ status.version = None
              /\ status.folder_name = None_name
        /\ (~plugins.exists \/ listed(plugins) = {}) => ~status.exists

\* the locator has returned a folder the prefix scan found, with the path of
\* that folder in the plugins directory
C12_witness ==
    /\ dialogs # <<>>
    /\ status.exists
    /\ status.folder_name = n_Old
    /\ status.path.name = n_Old

\* the folders of the plugins directory
folders(fs) == {n \in listed(fs) : path_isdir(fs, n)}

\* the plugins directory holds exactly one folder, n, whose name starts with
\* 'pyarchinit' and is not one of the installer's, and whose metadata.txt
\* declares a name and a version
only_folder(n) ==
    /\ folders(plugins) = {n}
    /\ startswith(n, s_pyarchinit)
    /\ \A k \in 1..Len(exclude_folders) : lower(n) # lower(exclude_folders[k])
    /\ entry(plugins, n).meta.file = "ok"
    /\ entry(plugins, n).meta.has_name
    /\ entry(plugins, n).meta.has_version

\* C13 as stated: once run() has asked the locator, the only folder of the
\* plugins directory, named 'pyarchinit...', not excluded and declaring a name
\* and a version V, has been returned with version V.
C13_only_folder_returned ==
    dialogs # <<>> =>
        \A n \in FsNames :
            only_folder(n) =>
                /\ status.exists
                /\ status.folder_name = n
                /\ status.version = entry(plugins, n).meta.version

\* C13 (amended): once run() has asked the locator, the only folder of the
\* plugins directory, named 'pyarchinit...', not excluded and declaring a
\* version V and a name that does not contain 'installer' in any case, has
\* been returned with version V.
C13_only_plugin_folder_returned ==
    dialogs # <<>> =>
        \A n \in FsNames :
            only_folder(n) /\ ~names_installer(entry(plugins, n).meta) =>
                /\ status.exists
                /\ status.folder_name = n
                /\ status.version = entry(plugins, n).meta.version

\* the locator has returned 'pyarchinit-master', the only folder, with the
\* version 2.1 its metadata.txt declares
C13_witness ==
    /\ dialogs # <<>>
    /\ only_folder(n_master)
    /\ entry(plugins, n_master).meta = old_metadata
    /\ status.folder_name = n_master
    /\ status.version = "2.1"

\* the invocations that have been started and have not called
\* finished_callback yet
unfinished == {i \in Slots : pc[i] \notin {"idle", "done"} /\ finished[i] = <<>>}

\* C14: driven through run() and the dialogs it opens, no install_plugin
\* invocation is started while an earlier one of the same installer has not
\* reached finished_callback: at most one invocation is unfinished.
C14_installs_serialized == Cardinality(unfinished) <= 1

\* the folders the locator accepts when it reaches them
accepted(fs) ==
    {n \in candidates(fs) : ~names_installer(entry(fs, n).meta)}

\* C15: the locator returns the first accepted candidate in a fixed order,
\* the built-in names in their list order before any folder of the prefix
\* scan, and a call that follows another on an unchanged plugins directory
\* returns the same record.
C15_same_record_again ==
    [][ /\ dialogs # <<>> => status' = status
        /\ \A k \in 1..Len(builtin_names) :
              /\ builtin_names[k] \in accepted(plugins)
              /\ \A j \in 1..(k - 1) : builtin_names[j] \notin accepted(plugins)
              => status'.folder_name = builtin_names[k] ]_vars

\* C16: the record the locator has returned never names a folder whose
\* metadata.txt parses and declares a name containing 'installer' in any
\* case, and the scan goes on past such a folder: when the plugins directory
\* holds a candidate the locator accepts, a match has been returned.
C16_installer_name_skipped ==
    dialogs # <<>> =>
        /\ status.exists
              => ~names_installer(entry(plugins, status.folder_name).meta)
        /\ accepted(plugins) # {} => status.exists

\* the folder at the first built-in name declares the installer's name, and
\* the locator has returned a candidate that comes after it
C16_witness ==
    /\ dialogs # <<>>
    /\ entry(plugins, target_name) = folder(installer_metadata, {"old"})
    /\ status.exists
    /\ status.folder_name # target_name

\* the phases in order: Idle, Downloading, Extracting, RemovingOld, Copying,
\* CleaningUp, Done, and the phase an invocation is in by where it stands;
\* Done begins with the call of finished_callback
Phases ==
    << {"idle"},
       {"downloading", "mkdtemp", "write_zip"},
       {"extract", "listdir"},
       {"locate", "rmtree_existing", "check_target", "rmtree_target"},
       {"copytree"},
       {"rmtree_temp", "read_back"},
       {"on_finished", "done"} >>

phase(label) == CHOOSE k \in 1..Len(Phases) : label \in Phases[k]

\* the progress message that has to be the latest one when the file system
\* operation an invocation stands before starts
announced ==
    [ mkdtemp         |-> "Download complete. Installing...",
      write_zip       |-> "Download complete. Installing...",
      extract         |-> "Extracting files...",
      rmtree_existing |-> "Removing existing installation: ...",
      rmtree_target   |-> "Removing old pyarchinit folder...",
      copytree        |-> "Copying new plugin files...",
      rmtree_temp     |-> "Cleaning up..." ]

\* C17: an invocation goes through the phases in order, one phase at a time,
\* never back, and a failure takes it straight to Done with a failure
\* outcome; the progress message of a phase has been emitted when the file
\* system operation of the phase starts; once in Done the invocation emits no
\* progress message and changes nothing in the file system.
C17_phases_in_order ==
    /\ [](\A i \in Slots :
             pc[i] \in DOMAIN announced =>
                 /\ progress[i] # <<>>
                 /\ last(progress[i]).text = announced[pc[i]])
    /\ [][\A i \in Slots :
             /\ pc[i] \notin {"idle", "done"} =>
                   /\ phase(pc'[i]) >= phase(pc[i])
                   /\ \/ phase(pc'[i]) <= phase(pc[i]) + 1
                      \/ /\ pc'[i] = "done"
                         /\ finished'[i] # <<>>
                         /\ ~last(finished'[i]).success
             /\ pc[i] = "idle" => pc'[i] \in {"idle", "downloading"}
             /\ pc[i] = "done" => pc'[i] \in {"done", "idle", "downloading"}
             /\ pc[i] = "done" /\ pc'[i] = "done" => progress'[i] = progress[i]
             /\ pc[i] = "on_finished" =>
                   /\ progress'[i] = progress[i]
                   /\ pc'[i] # pc[i] => plugins' = plugins /\ temp' = temp
      ]_vars

\* an invocation has gone through every phase, both removals included, and
\* has ended with a success outcome
C17_witness ==
    \E i \in Slots :
        /\ pc[i] = "done"
        /\ succeeded(i)
        /\ [k \in 1..Len(progress[i]) |-> progress[i][k].text] =
              << "Downloading branch...", "Download complete. Installing...",
                 "Extracting files...", "Checking existing installation...",
                 "Removing existing installation: ...",
                 "Removing old pyarchinit folder...",
                 "Copying new plugin files...", "Cleaning up..." >>

\* C18: a step of an invocation that deletes from a directory under the
\* plugins directory is a step of an install whose dialog showed the
\* replacement confirmation and got the answer Yes; and the click that is
\* answered No calls nothing: no request, no temporary directory, no change
\* under the plugins directory.
C18_deletion_confirmed ==
    [][ /\ \A i \in Slots :
              /\ pc[i] \in {"rmtree_existing", "rmtree_target"}
              /\ pc'[i] # pc[i]
              /\ \E n \in InstallNames :
                    /\ entry(plugins, n).kind = "dir"
                    /\ entry(plugins', n) # entry(plugins, n)
              => \E d \in DOMAIN dialogs :
                    dialogs[d].slot = i /\ dialogs[d].reply = "Yes"
        /\ \A d \in DOMAIN dialogs \cap DOMAIN dialogs' :
              dialogs[d].reply # "No" /\ dialogs'[d].reply = "No"
              => UNCHANGED << plugins, temp, replies, current_reply, pc, frame,
                              progress, finished >>
      ]_vars

\* C19: the handler of every download_branch call, one made while an earlier
\* download is in flight included, has been entered with the reply of the
\* request that call issued.
C19_own_reply ==
    \A i \in Slots :
        pc[i] \notin {"idle", "downloading"} => frame[i].reply = i

\* C20: when an invocation calls finished_callback(True, ...), whatever the
\* plugins directory held at the start, the locator accepts exactly one
\* folder, the one at the target name: no other installed copy is left.
C20_single_installation ==
    \A i \in Slots :
        pc[i] = "on_finished" /\ succeeded(i) => accepted(plugins) = {target_name}

\* the copy of invocation i into the target path has completed: "Cleaning
\* up..." is the message that follows shutil.copytree
copy_completed(i) ==
    \E k \in 1..Len(progress[i]) : progress[i][k].text = "Cleaning up..."

\* C21: an invocation whose copy into the target path has completed reports
\* no failure: every finished_callback call it makes is a success, so that a
\* reported failure means the new tree is not installed.
C21_failure_means_not_installed ==
    \A i \in Slots :
        copy_completed(i) =>
            \A k \in 1..Len(finished[i]) : finished[i][k].success

====
